---- MODULE Spec2Model ----
(***************************************************************************)
(* Model of the gene-symbol -> Entrez Gene ID resolution script            *)
(* (code/gene_to_id.py) and of the tenacity retry policy that decorates    *)
(* call_esearch / call_efetch (gene_to_id.py, id_to_info.py).              *)
(*                                                                         *)
(* Spec      : the per-symbol resolution loop, one step per network call.  *)
(* SpecCall  : one decorated call, one step per HTTP attempt.              *)
(*                                                                         *)
(* Not modelled: the text of log_file and genes_NCBI_Discontinued_2.txt    *)
(* (write-only, never read back by the script).                            *)
(***************************************************************************)
EXTENDS Integers, Sequences, FiniteSets, TLC

VARIABLES
    \* ---- program state of gene_to_id.py ----
    all_genes,          \* list read from query_genes.txt (not deduplicated)
    idx,                \* position of the for-loop over all_genes (1-based)
    pc,                 \* "search" | "efetch_sole" | "efetch_multi" | "done"
    gene,               \* loop variable `gene`
    ids_list,           \* ids_list of the current iteration
    pos,                \* position of the inner for-loop over ids_list
    gene_id,            \* module-level variable gene_id
    check_gene_id,      \* module-level loop variable check_gene_id
    candidate_gene_id,  \* alias matches collected so far
    gene_id_dict,       \* resolved mapping
    genes_None,         \* lines of genes_None.txt, each with its logged cause
    genes_Discontinued_1, \* lines of genes_NCBI_Discontinued_1.txt
    \* ---- observation of the current / last iteration ----
    answer,             \* what this iteration's search handed back
    seen,               \* per fetched rank: what the fetched record carried
    fetchLog,           \* ids passed to call_efetch in this iteration
    searchCalls,        \* symbols passed to call_esearch so far, in order
    outcome,            \* how the last completed iteration ended
    first,              \* TwiceSpec: how the first run's last symbol went
    \* ---- one decorated call (SpecCall) ----
    fn,                 \* which decorated function is being called
    pattern,            \* what each HTTP attempt would do, by attempt number
    attempt_number,     \* tenacity's retry_state.attempt_number
    requests,           \* HTTP requests made by this call
    delays,             \* inter-attempt sleeps taken by this call
    status              \* "running" | "returned" | "RetryError" | "raised"

progVars == <<all_genes, idx, pc, gene, ids_list, pos, gene_id, check_gene_id,
              candidate_gene_id, gene_id_dict, genes_None,
              genes_Discontinued_1>>
obsVars  == <<answer, seen, fetchLog, searchCalls, outcome, first>>
callVars == <<fn, pattern, attempt_number, requests, delays, status>>
vars     == <<progVars, obsVars, callVars>>

----------------------------------------------------------------------------
(* Bounds of the model *)

MaxGenes   == 2      \* longest input list
MaxPattern == 7      \* attempts of one call whose behaviour is prescribed

Symbols == {"A", "B"}

Undefined == "Undefined"     \* a Python name that has not been bound yet

----------------------------------------------------------------------------
(* The tenacity retry policy of the decorated calls *)

DecoratedFns == {"call_esearch", "call_efetch", "id_to_info.call_efetch"}

\* What one HTTP request can come to: a 200 answer carrying data ("ok"), a
\* 200 answer that carries nothing, e.g. an empty idlist ("ok_empty"), a
\* requests.RequestException, or any other exception.
AttemptOutcomes == {"ok", "ok_empty", "RequestException", "OtherException"}

\* Variant of raise_for_status: an answer that carries nothing is an error.
raise_for_status_or_empty(o) == o # "ok"

\* response.raise_for_status(); return response: the body raises exactly
\* when the request did not come back with a 2xx answer.
raise_for_status(o) == o \notin {"ok", "ok_empty"}

\* stop=stop_after_attempt(6)
stop_after_attempt(f) ==
    CASE f = "call_esearch"           -> 6
      [] f = "call_efetch"            -> 6
      [] f = "id_to_info.call_efetch" -> 6

\* wait=wait_fixed(3)
wait_fixed(f) ==
    CASE f = "call_esearch"           -> 3
      [] f = "call_efetch"            -> 3
      [] f = "id_to_info.call_efetch" -> 3

\* Variant of retry_if_exception_type: retries on any exception.
retry_if_any_exception(o) == raise_for_status(o)

\* retry=retry_if_exception_type(requests.RequestException)
retry_if_exception_type(o) == o = "RequestException"

\* One pass of tenacity's loop around the decorated body: the body makes one
\* HTTP request (requests.get + raise_for_status) whose outcome is o.
StartCall == [attempt_number |-> 1, requests |-> 0, delays |-> 0,
              status |-> "running"]

\* Variant of Attempt: the stop test is off by one.
AttemptStopsLate(f, st, o) ==
    LET made == [st EXCEPT !.requests = @ + 1] IN
    IF ~ raise_for_status(o)
      THEN [made EXCEPT !.status = "returned"]
    ELSE IF ~ retry_if_exception_type(o)
      THEN [made EXCEPT !.status = "raised"]
    ELSE IF st.attempt_number > stop_after_attempt(f)
      THEN [made EXCEPT !.status = "RetryError"]
    ELSE [made EXCEPT !.delays = @ + 1, !.attempt_number = @ + 1]

Attempt(f, st, o) ==
    LET made == [st EXCEPT !.requests = @ + 1] IN
    IF ~ raise_for_status(o)
      THEN [made EXCEPT !.status = "returned"]
    ELSE IF ~ retry_if_exception_type(o)
      THEN [made EXCEPT !.status = "raised"]
    ELSE IF st.attempt_number >= stop_after_attempt(f)
      THEN [made EXCEPT !.status = "RetryError"]
    ELSE [made EXCEPT !.delays = @ + 1, !.attempt_number = @ + 1]

\* A whole call under a prescribed pattern of attempt outcomes.
RECURSIVE RunCall(_, _, _)
RunCall(f, st, p) ==
    IF st.status # "running" \/ st.attempt_number > Len(p)
      THEN st
      ELSE RunCall(f, Attempt(f, st, p[st.attempt_number]), p)

Patterns == [1..MaxPattern -> AttemptOutcomes]

\* What a call of f can hand back to the script.
CallResults(f) == {RunCall(f, StartCall, p).status : p \in Patterns}

esearchResults == CallResults("call_esearch")
efetchResults  == CallResults("call_efetch")

----------------------------------------------------------------------------
(* What the remote can answer *)

\* idlist of an ESearch answer: distinct ids in relevance order.  The ids
\* are opaque to the script, so the remote's ranking is fixed once and every
\* answer is a sub-list of it.
Relevance == <<"10", "20", "30">>

Ids == {Relevance[k] : k \in 1..Len(Relevance)}

Rank(i) == CHOOSE k \in 1..Len(Relevance) : Relevance[k] = i

IdLists ==
    {q \in UNION {[1..m -> Ids] : m \in 0..Len(Relevance)} :
        \A i, j \in DOMAIN q : i < j => Rank(q[i]) < Rank(q[j])}

\* An EFetch document, reduced to the three paths the script looks up:
\*   disc  : a Gene-track_discontinue-date element is present
\*   locus : the texts of the Gene-ref_locus elements, in document order
\*   syn   : the texts of the Gene-ref_syn_E elements
Loci    == {<<>>} \cup {<<a>> : a \in Symbols}
               \cup {<<a, b>> : a \in Symbols, b \in Symbols}
Records == [disc : BOOLEAN, locus : Loci, syn : SUBSET Symbols]

Absent == "Absent"           \* official_symbol left as the empty list

\* root.find(".../Gene-track_discontinue-date") is not None
discontinued_flag(root) == root.disc

\* official_symbol after lines 176-206: the first locus text, or []
official_symbol(root) ==
    IF root.locus = <<>> THEN Absent ELSE root.locus[1]

\* gene_aliases after lines 180-187
gene_aliases(root) == root.syn

\* lines 116, 124, 147: the branch taken on len(ids_list)
Branch(ids) ==
    IF Len(ids) = 0 THEN "none"
    ELSE IF Len(ids) = 1 THEN "sole"
    ELSE "multi"

\* Variant of Fallback: a leftover check_gene_id is taken when there is one.
FallbackStale(ids) ==
    IF check_gene_id # Undefined THEN check_gene_id ELSE ids[1]

\* Variant of Fallback: the last candidate instead of the first.
FallbackLast(ids) == ids[Len(ids)]

\* lines 125, 152: gene_id = ids_list[0]
Fallback(ids) == ids[1]

\* Variant of SoleAccepted: also asks for an official-symbol match.
SoleAcceptedOnMatch(g, root) ==
    ~ discontinued_flag(root) /\ g = official_symbol(root)

\* line 133: the sole candidate is accepted when it is not discontinued
SoleAccepted(g, root) == ~ discontinued_flag(root)

\* Variant of LoopBody: an exact match is taken but the loop goes on.
LoopBodyNoBreak(g, id, root, gid, cands) ==
    IF discontinued_flag(root)
      THEN [gene_id |-> gid, candidate_gene_id |-> cands, brk |-> FALSE]
    ELSE IF g = official_symbol(root)
      THEN [gene_id |-> id, candidate_gene_id |-> <<>>, brk |-> FALSE]
    ELSE IF g \in gene_aliases(root)
      THEN [gene_id |-> gid, candidate_gene_id |-> Append(cands, id),
            brk |-> FALSE]
    ELSE [gene_id |-> gid, candidate_gene_id |-> cands, brk |-> FALSE]

\* Variant of LoopBody: the discontinued test comes after the match tests.
LoopBodyMatchesFirst(g, id, root, gid, cands) ==
    IF g = official_symbol(root)
      THEN [gene_id |-> id, candidate_gene_id |-> <<>>, brk |-> TRUE]
    ELSE IF g \in gene_aliases(root)
      THEN [gene_id |-> gid, candidate_gene_id |-> Append(cands, id),
            brk |-> FALSE]
    ELSE [gene_id |-> gid, candidate_gene_id |-> cands, brk |-> FALSE]

\* Variant of LoopBody: an exact match does not empty candidate_gene_id.
LoopBodyKeepsAliases(g, id, root, gid, cands) ==
    IF discontinued_flag(root)
      THEN [gene_id |-> gid, candidate_gene_id |-> cands, brk |-> FALSE]
    ELSE IF g = official_symbol(root)
      THEN [gene_id |-> id, candidate_gene_id |-> cands, brk |-> TRUE]
    ELSE IF g \in gene_aliases(root)
      THEN [gene_id |-> gid, candidate_gene_id |-> Append(cands, id),
            brk |-> FALSE]
    ELSE [gene_id |-> gid, candidate_gene_id |-> cands, brk |-> FALSE]

\* lines 158-214: one pass of the inner loop on the record of candidate id,
\* from the current gene_id (gid) and candidate_gene_id (cands)
LoopBody(g, id, root, gid, cands) ==
    IF discontinued_flag(root)                                \* continue
      THEN [gene_id |-> gid, candidate_gene_id |-> cands, brk |-> FALSE]
    ELSE IF g = official_symbol(root)                         \* break
      THEN [gene_id |-> id, candidate_gene_id |-> <<>>, brk |-> TRUE]
    ELSE IF g \in gene_aliases(root)
      THEN [gene_id |-> gid, candidate_gene_id |-> Append(cands, id),
            brk |-> FALSE]
    ELSE [gene_id |-> gid, candidate_gene_id |-> cands, brk |-> FALSE]

\* Variant of FinalSelection: the latest alias match instead of the earliest.
FinalSelectionLast(gid, cands) ==
    IF Len(cands) > 0 THEN cands[Len(cands)] ELSE gid

\* lines 216-219: an alias match replaces gene_id
FinalSelection(gid, cands) ==
    IF Len(cands) > 0 THEN cands[1] ELSE gid

\* gene_id_dict[gene] = gene_id
DictPut(d, k, v) ==
    [s \in (DOMAIN d) \cup {k} |-> IF s = k THEN v ELSE d[s]]

NoAnswer == [ok |-> FALSE, ids |-> <<>>]

\* What a fetched record carried, relative to the symbol being resolved
\* (recorded for every fetched record, discontinued or not).
Carried(g, id, root) ==
    [id    |-> id,
     disc  |-> root.disc,
     exact |-> root.locus # <<>> /\ root.locus[1] = g,
     alias |-> g \in root.syn]

----------------------------------------------------------------------------
(* An unchanged remote: a second run is answered as the first run was *)

NoMemory == [mode |-> "off"]

\* The script is being run again on a symbol the remote has answered before.
Replaying == first.mode = "replay"

\* Taken when the last iteration of the first run ends (TwiceSpec only):
\* what the remote answered for that symbol and how the iteration ended.
\* Nothing is kept when a call or a parse failed.
Memorise ==
    first' =
      IF first.mode = "watch" /\ idx = Len(all_genes) /\ idx' # idx
        THEN IF outcome' \in {"RetryError", "raised", "ParseError"}
               THEN [mode |-> "void"]
               ELSE [mode    |-> "kept",
                     gene    |-> gene',
                     answer  |-> answer',
                     seen    |-> seen',
                     outcome |-> outcome',
                     stored  |-> IF outcome' = "resolved"
                                   THEN gene_id_dict'[gene'] ELSE "none"]
        ELSE first

\* What call_esearch / call_efetch can hand back now.
esearchResultsNow == IF Replaying THEN {"returned"} ELSE esearchResults
efetchResultsNow  == IF Replaying THEN {"returned"} ELSE efetchResults

\* The idlists the search can answer now.
IdListsNow == IF Replaying THEN {first.answer.ids} ELSE IdLists

\* The records the fetch of the candidate at rank k can answer now: on an
\* unchanged remote, a record that carries what the first fetch carried.
RecordsNow(g, k) ==
    IF Replaying /\ k \in DOMAIN first.seen
      THEN {r \in Records : /\ r.disc = first.seen[k].disc
                            /\ (r.locus # <<>> /\ r.locus[1] = g)
                                   = first.seen[k].exact
                            /\ (g \in r.syn) = first.seen[k].alias}
      ELSE Records

----------------------------------------------------------------------------
(* gene_to_id.py: the loop over all_genes *)

InputLists == UNION {[1..n -> Symbols] : n \in 1..MaxGenes}

IdleCall ==
    /\ fn = "none" /\ pattern = <<>> /\ attempt_number = 0
    /\ requests = 0 /\ delays = 0 /\ status = "idle"

Init ==
    /\ all_genes \in InputLists
    /\ idx = 1
    /\ pc = "search"
    /\ gene = Undefined
    /\ ids_list = <<>>
    /\ pos = 0
    /\ gene_id = Undefined
    /\ check_gene_id = Undefined
    /\ candidate_gene_id = <<>>
    /\ gene_id_dict = <<>>
    /\ genes_None = <<>>
    /\ genes_Discontinued_1 = <<>>
    /\ answer = NoAnswer
    /\ seen = <<>>
    /\ fetchLog = <<>>
    /\ searchCalls = <<>>
    /\ outcome = "none"
    /\ first = NoMemory
    /\ IdleCall

\* Variant of Except: what the iteration had selected so far is stored
\* before the failure is recorded.
ExceptStoresPartial(g, e) ==
    /\ gene_id_dict' = DictPut(gene_id_dict, g, gene_id)
    /\ genes_None' = Append(genes_None, [gene |-> g, cause |-> e])
    /\ outcome' = e
    /\ idx' = idx + 1
    /\ pc' = "search"
    /\ pos' = 0
    /\ UNCHANGED <<all_genes, genes_Discontinued_1>>

\* except Exception as e (lines 228-233): the symbol goes to genes_None.txt
\* and the for-loop moves on.
Except(g, e) ==
    /\ genes_None' = Append(genes_None, [gene |-> g, cause |-> e])
    /\ outcome' = e
    /\ idx' = idx + 1
    /\ pc' = "search"
    /\ pos' = 0
    /\ UNCHANGED <<all_genes, gene_id_dict, genes_Discontinued_1>>

\* Variant of NoCandidates: the continue is missing, so the iteration falls
\* through to the final store with whatever gene_id holds.
NoCandidatesFallsThrough(g) ==
    /\ gene_id_dict' = DictPut(gene_id_dict, g, gene_id)
    /\ genes_None' = Append(genes_None, [gene |-> g, cause |-> "no candidates"])
    /\ outcome' = "resolved"
    /\ idx' = idx + 1
    /\ pc' = "search"
    /\ pos' = 0
    /\ UNCHANGED <<all_genes, genes_Discontinued_1>>

\* lines 116-122: no candidate; genes_None.txt, then continue
NoCandidates(g) ==
    /\ genes_None' = Append(genes_None, [gene |-> g, cause |-> "no candidates"])
    /\ outcome' = "no candidates"
    /\ idx' = idx + 1
    /\ pc' = "search"
    /\ pos' = 0
    /\ UNCHANGED <<all_genes, gene_id_dict, genes_Discontinued_1>>

\* lines 138-145: the sole candidate is discontinued.  The log line reads
\* check_gene_id, which only the multi-candidate loop binds: while it is
\* unbound the read raises NameError and the except clause takes over.
SoleDiscontinued(g, id) ==
    IF check_gene_id = Undefined
      THEN Except(g, "NameError")
      ELSE /\ genes_Discontinued_1' =
                Append(genes_Discontinued_1, [gene |-> g, id |-> id])
           /\ outcome' = "sole candidate discontinued"
           /\ idx' = idx + 1
           /\ pc' = "search"
           /\ pos' = 0
           /\ UNCHANGED <<all_genes, gene_id_dict, genes_None>>

\* Variant of Store: a selection whose record was found discontinued is not
\* stored; the symbol is recorded as unresolved instead.
StoreUnlessDiscontinued(g, gid, cands) ==
    IF \E k \in DOMAIN seen' :
           seen'[k].id = FinalSelection(gid, cands) /\ seen'[k].disc
      THEN /\ gene_id' = FinalSelection(gid, cands)
           /\ genes_None' = Append(genes_None,
                                   [gene |-> g, cause |-> "discontinued"])
           /\ outcome' = "discontinued"
           /\ idx' = idx + 1
           /\ pc' = "search"
           /\ pos' = 0
           /\ UNCHANGED <<all_genes, gene_id_dict, genes_Discontinued_1>>
      ELSE /\ gene_id' = FinalSelection(gid, cands)
           /\ gene_id_dict' =
                  DictPut(gene_id_dict, g, FinalSelection(gid, cands))
           /\ outcome' = "resolved"
           /\ idx' = idx + 1
           /\ pc' = "search"
           /\ pos' = 0
           /\ UNCHANGED <<all_genes, genes_None, genes_Discontinued_1>>

\* lines 216-226: final selection and gene_id_dict[gene] = gene_id
Store(g, gid, cands) ==
    /\ gene_id' = FinalSelection(gid, cands)
    /\ gene_id_dict' = DictPut(gene_id_dict, g, FinalSelection(gid, cands))
    /\ outcome' = "resolved"
    /\ idx' = idx + 1
    /\ pc' = "search"
    /\ pos' = 0
    /\ UNCHANGED <<all_genes, genes_None, genes_Discontinued_1>>

\* lines 109-125, 147-152: call_esearch, idlist, and the branch on its length
Search ==
    /\ pc = "search"
    /\ idx <= Len(all_genes)
    /\ LET g == all_genes[idx] IN
       /\ gene' = g
       /\ searchCalls' = Append(searchCalls, g)
       /\ seen' = <<>>
       /\ fetchLog' = <<>>
       /\ \/ \E res \in esearchResultsNow \ {"returned"} :
               /\ answer' = NoAnswer
               /\ Except(g, res)
               /\ UNCHANGED <<ids_list, gene_id, candidate_gene_id>>
          \/ /\ "returned" \in esearchResultsNow
             /\ \/ /\ ~ Replaying
                   /\ answer' = NoAnswer           \* response1.json()[..][..]
                   /\ Except(g, "ParseError")
                   /\ UNCHANGED <<ids_list, gene_id, candidate_gene_id>>
                \/ \E ids \in IdListsNow :
                     /\ answer' = [ok |-> TRUE, ids |-> ids]
                     /\ ids_list' = ids
                     /\ candidate_gene_id' = <<>>
                     /\ CASE Branch(ids) = "none" ->
                               /\ NoCandidates(g)
                               /\ UNCHANGED gene_id
                          [] Branch(ids) = "sole" ->
                               /\ gene_id' = Fallback(ids)
                               /\ pc' = "efetch_sole"
                               /\ UNCHANGED <<all_genes, idx, pos, gene_id_dict,
                                              genes_None, genes_Discontinued_1,
                                              outcome>>
                          [] Branch(ids) = "multi" ->
                               /\ gene_id' = Fallback(ids)
                               /\ pc' = "efetch_multi"
                               /\ pos' = 1
                               /\ UNCHANGED <<all_genes, idx, gene_id_dict,
                                              genes_None, genes_Discontinued_1,
                                              outcome>>
    /\ UNCHANGED check_gene_id
    /\ Memorise
    /\ UNCHANGED callVars

\* lines 127-145: the single-candidate branch
FetchSole ==
    /\ pc = "efetch_sole"
    /\ fetchLog' = Append(fetchLog, gene_id)
    /\ \/ \E res \in efetchResultsNow \ {"returned"} :
            /\ Except(gene, res)
            /\ UNCHANGED <<gene_id, seen>>
       \/ /\ "returned" \in efetchResultsNow
          /\ \/ /\ ~ Replaying
                /\ Except(gene, "ParseError")           \* ET.fromstring
                /\ UNCHANGED <<gene_id, seen>>
             \/ \E root \in RecordsNow(gene, 1) :
                  /\ seen' = Append(seen, Carried(gene, gene_id, root))
                  /\ IF SoleAccepted(gene, root)
                       THEN Store(gene, gene_id, candidate_gene_id)
                       ELSE /\ SoleDiscontinued(gene, gene_id)
                            /\ UNCHANGED gene_id
    /\ UNCHANGED <<gene, ids_list, check_gene_id, candidate_gene_id,
                   answer, searchCalls>>
    /\ Memorise
    /\ UNCHANGED callVars

\* lines 154-214 (one pass of the inner loop) and, when the loop ends,
\* lines 216-226
FetchCandidate ==
    /\ pc = "efetch_multi"
    /\ pos \in 1..Len(ids_list)
    /\ check_gene_id' = ids_list[pos]
    /\ fetchLog' = Append(fetchLog, ids_list[pos])
    /\ \/ \E res \in efetchResultsNow \ {"returned"} :
            /\ Except(gene, res)
            /\ UNCHANGED <<gene_id, candidate_gene_id, seen>>
       \/ /\ "returned" \in efetchResultsNow
          /\ \/ /\ ~ Replaying
                /\ Except(gene, "ParseError")           \* ET.fromstring
                /\ UNCHANGED <<gene_id, candidate_gene_id, seen>>
             \/ \E root \in RecordsNow(gene, pos) :
                  LET id   == ids_list[pos]
                      body == LoopBody(gene, id, root, gene_id,
                                       candidate_gene_id)
                  IN
                  /\ seen' = Append(seen, Carried(gene, id, root))
                  /\ candidate_gene_id' = body.candidate_gene_id
                  /\ IF body.brk \/ pos = Len(ids_list)
                       THEN Store(gene, body.gene_id, body.candidate_gene_id)
                       ELSE /\ gene_id' = body.gene_id
                            /\ pos' = pos + 1
                            /\ UNCHANGED <<all_genes, idx, pc, gene_id_dict,
                                           genes_None, genes_Discontinued_1,
                                           outcome>>
    /\ UNCHANGED <<gene, ids_list, answer, searchCalls>>
    /\ Memorise
    /\ UNCHANGED callVars

\* lines 235-240: the loop is over, the mapping is dumped
Dump ==
    /\ pc = "search"
    /\ idx > Len(all_genes)
    /\ pc' = "done"
    /\ UNCHANGED <<all_genes, idx, gene, ids_list, pos, gene_id, check_gene_id,
                   candidate_gene_id, gene_id_dict, genes_None,
                   genes_Discontinued_1>>
    /\ UNCHANGED obsVars
    /\ UNCHANGED callVars

Next == Search \/ FetchSole \/ FetchCandidate \/ Dump

Spec == Init /\ [][Next]_vars

\* The script is one sequential thread, so a step that needs nothing from the
\* remote (the final dump) is eventually taken.  Search, FetchSole and
\* FetchCandidate start with requests.get, which is called without a timeout:
\* stop_after_attempt bounds the number of attempts, not the length of one,
\* and an attempt the remote never answers never ends.  No fairness is
\* stated for them.
FairSpec == Spec /\ WF_vars(Dump)

\* Two runs of the script against an unchanged remote: the first on any
\* input list, the second on the last symbol of that list alone.
InitTwice ==
    /\ all_genes \in InputLists
    /\ idx = 1
    /\ pc = "search"
    /\ gene = Undefined
    /\ ids_list = <<>>
    /\ pos = 0
    /\ gene_id = Undefined
    /\ check_gene_id = Undefined
    /\ candidate_gene_id = <<>>
    /\ gene_id_dict = <<>>
    /\ genes_None = <<>>
    /\ genes_Discontinued_1 = <<>>
    /\ answer = NoAnswer
    /\ seen = <<>>
    /\ fetchLog = <<>>
    /\ searchCalls = <<>>
    /\ outcome = "none"
    /\ first = [mode |-> "watch"]
    /\ IdleCall

\* lines 99-107 in a new process: every name is unbound again and
\* gene_id_dict is empty; genes_None.txt and genes_NCBI_Discontinued_1.txt
\* are opened with "a+" and keep their lines.
Rerun ==
    /\ pc = "done"
    /\ first.mode = "kept"
    /\ all_genes' = <<first.gene>>
    /\ idx' = 1
    /\ pc' = "search"
    /\ gene' = Undefined
    /\ ids_list' = <<>>
    /\ pos' = 0
    /\ gene_id' = Undefined
    /\ check_gene_id' = Undefined
    /\ candidate_gene_id' = <<>>
    /\ gene_id_dict' = <<>>
    /\ answer' = NoAnswer
    /\ seen' = <<>>
    /\ fetchLog' = <<>>
    /\ searchCalls' = <<>>
    /\ outcome' = "none"
    /\ first' = [first EXCEPT !.mode = "replay"]
    /\ UNCHANGED <<genes_None, genes_Discontinued_1>>
    /\ UNCHANGED callVars

NextTwice == Search \/ FetchSole \/ FetchCandidate \/ Dump \/ Rerun

TwiceSpec == InitTwice /\ [][NextTwice]_vars

----------------------------------------------------------------------------
(* One decorated call, attempt by attempt *)

IdleProg ==
    /\ all_genes = <<>> /\ idx = 1 /\ pc = "done" /\ gene = Undefined
    /\ ids_list = <<>> /\ pos = 0 /\ gene_id = Undefined
    /\ check_gene_id = Undefined /\ candidate_gene_id = <<>>
    /\ gene_id_dict = <<>> /\ genes_None = <<>> /\ genes_Discontinued_1 = <<>>
    /\ answer = NoAnswer /\ seen = <<>> /\ fetchLog = <<>>
    /\ searchCalls = <<>> /\ outcome = "none" /\ first = NoMemory

InitCall ==
    /\ IdleProg
    /\ fn \in DecoratedFns
    /\ pattern \in Patterns
    /\ attempt_number = StartCall.attempt_number
    /\ requests = StartCall.requests
    /\ delays = StartCall.delays
    /\ status = StartCall.status

\* One attempt of the decorated body: requests.get + raise_for_status, then
\* tenacity decides whether to return, raise, or sleep and go round again.
HttpAttempt ==
    /\ status = "running"
    /\ attempt_number <= Len(pattern)
    /\ LET st == Attempt(fn,
                         [attempt_number |-> attempt_number,
                          requests |-> requests, delays |-> delays,
                          status |-> status],
                         pattern[attempt_number])
       IN /\ attempt_number' = st.attempt_number
          /\ requests' = st.requests
          /\ delays' = st.delays
          /\ status' = st.status
    /\ UNCHANGED <<fn, pattern>>
    /\ UNCHANGED progVars
    /\ UNCHANGED obsVars

NextCall == HttpAttempt

SpecCall == InitCall /\ [][NextCall]_vars

----------------------------------------------------------------------------
(* Properties of the resolution loop (Spec) *)

\* The observation variables describe a completed iteration.
AtRest == pc \in {"search", "done"} /\ outcome # "none"

\* A call_esearch / call_efetch of the iteration failed or did not parse.
FetchFailed == outcome \in {"RetryError", "raised", "ParseError"}

Sole  == answer.ok /\ Len(answer.ids) = 1
Multi == answer.ok /\ Len(answer.ids) >= 2

StoredIs(i) == gene \in DOMAIN gene_id_dict /\ gene_id_dict[gene] = i

Min(S) == CHOOSE m \in S : \A n \in S : m <= n

FirstExactAt(k) ==
    /\ k \in DOMAIN seen
    /\ seen[k].exact
    /\ \A j \in 1..(k - 1) : ~ seen[j].exact

NoExact        == \A k \in DOMAIN seen : ~ seen[k].exact
AliasRanks     == {k \in DOMAIN seen : seen[k].alias}
LiveAliasRanks == {k \in DOMAIN seen : seen[k].alias /\ ~ seen[k].disc}

UnresolvedSymbols ==
    {genes_None[i].gene : i \in DOMAIN genes_None}
    \cup {genes_Discontinued_1[i].gene : i \in DOMAIN genes_Discontinued_1}

\* C1: the identifier stored for a symbol is never one whose record, fetched
\* while resolving that symbol, carried the discontinuation marker.
C1_NeverDiscontinued ==
    (AtRest /\ outcome = "resolved") =>
        \A k \in DOMAIN seen :
            seen[k].id = gene_id_dict[gene] => ~ seen[k].disc

\* C2 (as claimed): with >= 2 candidates and no failed fetch, the first
\* candidate whose official symbol equals the symbol is the stored resolution,
\* whatever the discontinued flags are.
C2_FirstExactWins_Original ==
    (AtRest /\ Multi /\ ~ FetchFailed) =>
        \A k \in DOMAIN seen : FirstExactAt(k) => StoredIs(seen[k].id)

\* C2 (amended): with >= 2 candidates and no failed fetch, if the first
\* candidate whose official symbol equals the symbol is not discontinued, it
\* is the stored resolution, whatever alias matches occur before or after it
\* and whatever the discontinued flags of the other candidates are.
C2_FirstExactWins ==
    (AtRest /\ Multi /\ ~ FetchFailed) =>
        \A k \in DOMAIN seen :
            (FirstExactAt(k) /\ ~ seen[k].disc) => StoredIs(seen[k].id)

C2_Witness ==
    /\ AtRest /\ Multi /\ ~ FetchFailed
    /\ Len(seen) = 2 /\ Len(answer.ids) = 3
    /\ seen[1].alias /\ ~ seen[1].disc /\ ~ seen[1].exact
    /\ seen[2].exact /\ ~ seen[2].disc
    /\ StoredIs(seen[2].id)

\* C3 (as claimed): with >= 2 candidates, no failed fetch and no exact match,
\* the stored resolution is the best-ranked candidate whose aliases contain
\* the symbol.
C3_FirstAliasWins_Original ==
    (AtRest /\ Multi /\ ~ FetchFailed /\ NoExact /\ AliasRanks # {}) =>
        StoredIs(seen[Min(AliasRanks)].id)

\* C3 (amended): with >= 2 candidates, no failed fetch and no exact match,
\* the stored resolution is the best-ranked candidate that is not
\* discontinued and whose aliases contain the symbol.
C3_FirstAliasWins ==
    (AtRest /\ Multi /\ ~ FetchFailed /\ NoExact /\ LiveAliasRanks # {}) =>
        StoredIs(seen[Min(LiveAliasRanks)].id)

C3_Witness ==
    /\ AtRest /\ Multi /\ ~ FetchFailed /\ NoExact
    /\ Len(seen) = 3
    /\ ~ seen[1].alias
    /\ LiveAliasRanks = {2, 3}
    /\ StoredIs(seen[2].id)

\* C4: with >= 2 candidates, no failed fetch, no exact match and no alias
\* match on any candidate, the stored resolution is the first element of the
\* search result, whichever candidates were found discontinued.
C4_FallbackIsTopRanked ==
    (AtRest /\ Multi /\ ~ FetchFailed /\ NoExact /\ AliasRanks = {}) =>
        StoredIs(answer.ids[1])

C4_Witness ==
    /\ AtRest /\ Multi /\ ~ FetchFailed /\ NoExact /\ AliasRanks = {}
    /\ Len(seen) = 3
    /\ seen[2].disc /\ ~ seen[1].disc
    /\ StoredIs(answer.ids[1])

\* C5: a search that succeeds with an empty candidate list records the symbol
\* in genes_None.txt with the cause "no candidates", adds nothing to
\* gene_id_dict, and ends the iteration without any call_efetch.
C5_NoCandidates ==
    [][(searchCalls' # searchCalls /\ answer'.ok /\ answer'.ids = <<>>) =>
          /\ genes_None' = Append(genes_None,
                                  [gene |-> gene', cause |-> "no candidates"])
          /\ gene_id_dict' = gene_id_dict
          /\ genes_Discontinued_1' = genes_Discontinued_1
          /\ fetchLog' = <<>>
          /\ pc' = "search"
          /\ idx' = idx + 1]_vars

C5_Witness ==
    /\ AtRest /\ answer.ok /\ answer.ids = <<>>
    /\ outcome = "no candidates"
    /\ Len(searchCalls) = 2
    /\ gene \notin DOMAIN gene_id_dict

\* C6: a sole candidate whose record has no discontinuation marker is the
\* stored resolution, whether or not its official symbol or aliases match,
\* after exactly one call_efetch.
C6_SoleAccepted ==
    (AtRest /\ Sole /\ Len(seen) = 1 /\ ~ seen[1].disc) =>
        /\ StoredIs(answer.ids[1])
        /\ outcome = "resolved"
        /\ fetchLog = <<answer.ids[1]>>

C6_Witness ==
    /\ AtRest /\ Sole /\ Len(seen) = 1
    /\ ~ seen[1].disc /\ ~ seen[1].exact /\ ~ seen[1].alias
    /\ StoredIs(answer.ids[1])
    /\ fetchLog = <<answer.ids[1]>>

\* C7: a sole candidate whose record is discontinued ends the iteration as
\* "sole candidate discontinued", with the symbol and the candidate id in
\* genes_NCBI_Discontinued_1.txt, at every position of the input list.
C7_SoleDiscontinued ==
    (AtRest /\ Sole /\ Len(seen) = 1 /\ seen[1].disc) =>
        /\ outcome = "sole candidate discontinued"
        /\ genes_Discontinued_1 # <<>>
        /\ genes_Discontinued_1[Len(genes_Discontinued_1)]
               = [gene |-> gene, id |-> answer.ids[1]]

\* C8: no symbol is both a key of gene_id_dict and an entry of
\* genes_None.txt or genes_NCBI_Discontinued_1.txt.
C8_ResolvedXorUnresolved ==
    \A s \in DOMAIN gene_id_dict : s \notin UnresolvedSymbols

----------------------------------------------------------------------------
(* Properties of one decorated call (SpecCall) *)

AllTransient == \A k \in 1..requests : pattern[k] = "RequestException"

\* C9: a call whose every attempt fails with requests.RequestException makes
\* exactly 6 HTTP requests, never a 7th, and then fails with RetryError.
C9_ExhaustsAfterSix ==
    (fn \in DecoratedFns /\ AllTransient) =>
        /\ requests <= 6
        /\ status \in {"running", "RetryError"}
        /\ status = "RetryError" <=> requests = 6

C9_Witness ==
    /\ fn \in DecoratedFns /\ AllTransient
    /\ requests = 6 /\ status = "RetryError"

\* C10: an attempt that fails with anything other than
\* requests.RequestException is the call's last request: the failure
\* propagates at once, with no sleep after it and no further attempt.
C10_OtherFailurePropagates ==
    fn \in DecoratedFns =>
        \A k \in 1..requests :
            pattern[k] = "OtherException" =>
                /\ k = requests
                /\ status = "raised"
                /\ delays = k - 1

C10_Witness ==
    /\ fn \in DecoratedFns
    /\ status = "raised"
    /\ requests = 3
    /\ pattern[3] = "OtherException"

----------------------------------------------------------------------------
(* Properties of the whole run (FairSpec, Spec) *)

\* C11: the run terminates, and by then every input entry has been searched
\* exactly once, in input order, and every entry is either resolved or
\* recorded as unresolved, whatever calls or parses failed on the way.
\* (Fails: a request the remote never answers keeps the run at that call.)
C11_RunCompletes ==
    <>(/\ pc = "done"
       /\ searchCalls = all_genes
       /\ \A i \in DOMAIN all_genes :
              all_genes[i] \in (DOMAIN gene_id_dict) \cup UnresolvedSymbols)

\* Failures outside the per-symbol taxonomy (exhausted retries, unparseable
\* document): an unbound name, or a non-transient exception of a call.
FatalCauses == {"NameError", "raised"}

\* C12: a failure that is neither exhausted retries nor an unparseable
\* record aborts the run: it is not recorded as a per-symbol unresolved
\* outcome and no later symbol is processed.
C12_FatalAborts ==
    /\ \A i \in DOMAIN genes_None : genes_None[i].cause \notin FatalCauses
    /\ outcome \in FatalCauses => pc = "done"

\* C18: a call whose first k-1 attempts fail with requests.RequestException
\* and whose k-th attempt is answered (1 <= k <= 6) returns after exactly k
\* requests and k-1 waits of 3 seconds, and makes no request afterwards; an
\* answer with an empty result counts as answered and is not retried.
C18_ReturnsAtFirstSuccess ==
    fn \in DecoratedFns =>
        \A k \in 1..stop_after_attempt(fn) :
            ( /\ \A j \in 1..(k - 1) : pattern[j] = "RequestException"
              /\ pattern[k] \in {"ok", "ok_empty"} ) =>
                /\ requests <= k
                /\ status \in {"running", "returned"}
                /\ status = "returned" <=> requests = k
                /\ status = "returned" =>
                       /\ delays = k - 1
                       /\ delays * wait_fixed(fn) = 3 * (k - 1)

C18_Witness ==
    /\ fn = "call_esearch"
    /\ \A j \in 1..5 : pattern[j] = "RequestException"
    /\ pattern[6] = "ok_empty"
    /\ pattern[7] = "ok"
    /\ status = "returned"
    /\ requests = 6 /\ delays = 5

----------------------------------------------------------------------------
(* Properties of the multi-candidate loop (Spec) *)

Range(q) == {q[i] : i \in DOMAIN q}

IsPrefix(p, q) == Len(p) <= Len(q) /\ \A i \in DOMAIN p : p[i] = q[i]

LiveExactRanks == {k \in DOMAIN seen : seen[k].exact /\ ~ seen[k].disc}

\* C15: with >= 2 candidates and every fetch succeeding and parsing, the
\* iteration ends resolved, with an entry in gene_id_dict, whatever the
\* candidates carry, also when every candidate is discontinued.
C15_MultiAlwaysResolves ==
    (AtRest /\ Multi /\ ~ FetchFailed) =>
        (outcome = "resolved" /\ gene \in DOMAIN gene_id_dict)

C15_Witness ==
    /\ AtRest /\ Multi /\ ~ FetchFailed
    /\ Len(seen) = 3
    /\ \A k \in DOMAIN seen : seen[k].disc
    /\ outcome = "resolved"
    /\ StoredIs(answer.ids[1])

\* C16 (as claimed): in the multi-candidate case the fetched candidates are
\* a prefix of the search result, in order, that ends at the first
\* non-discontinued candidate whose official symbol equals the symbol, or
\* is the whole result when there is none.
C16_FetchedPrefix_Original ==
    Multi =>
        /\ IsPrefix(fetchLog, answer.ids)
        /\ AtRest =>
             /\ LiveExactRanks # {} => Len(fetchLog) = Min(LiveExactRanks)
             /\ LiveExactRanks = {} => fetchLog = answer.ids

\* C16 (amended): in the multi-candidate case the fetched candidates are a
\* prefix of the search result, in order, one call each; when no fetch
\* fails the prefix ends at the first non-discontinued candidate whose
\* official symbol equals the symbol, or is the whole result when there is
\* none.
C16_FetchedPrefix ==
    Multi =>
        /\ IsPrefix(fetchLog, answer.ids)
        /\ (AtRest /\ ~ FetchFailed) =>
             /\ LiveExactRanks # {} => Len(fetchLog) = Min(LiveExactRanks)
             /\ LiveExactRanks = {} => fetchLog = answer.ids

C16_Witness ==
    /\ AtRest /\ Multi /\ ~ FetchFailed
    /\ Len(answer.ids) = 3
    /\ seen[1].disc /\ seen[1].exact
    /\ LiveExactRanks = {2}
    /\ fetchLog = <<answer.ids[1], answer.ids[2]>>

\* C17: in the multi-candidate loop a discontinued candidate is never among
\* the alias candidates and never ends the loop; it is the stored resolution
\* only as the top-ranked fallback, when no non-discontinued candidate
\* matched by official symbol or alias.
C17_DiscontinuedSkipped ==
    Multi =>
        /\ \A k \in DOMAIN seen :
               seen[k].disc => seen[k].id \notin Range(candidate_gene_id)
        /\ (AtRest /\ ~ FetchFailed) =>
             /\ Len(seen) < Len(answer.ids) => ~ seen[Len(seen)].disc
             /\ \A k \in DOMAIN seen :
                    (seen[k].disc /\ StoredIs(seen[k].id)) =>
                        /\ k = 1
                        /\ LiveExactRanks = {}
                        /\ LiveAliasRanks = {}

C17_Witness ==
    /\ AtRest /\ Multi /\ ~ FetchFailed
    /\ Len(seen) = 3
    /\ seen[1].disc /\ seen[1].alias
    /\ seen[2].disc /\ seen[2].exact
    /\ ~ seen[3].disc /\ ~ seen[3].exact /\ ~ seen[3].alias
    /\ candidate_gene_id = <<>>
    /\ StoredIs(seen[1].id)

\* C19: an identifier stored for a symbol is an element of the candidate
\* list the search returned for that symbol in the same iteration.
C19_StoredIsCandidate ==
    (AtRest /\ outcome = "resolved") =>
        (answer.ok /\ gene_id_dict[gene] \in Range(answer.ids))

C19_Witness ==
    /\ AtRest /\ outcome = "resolved"
    /\ Len(searchCalls) = 2
    /\ Sole
    /\ check_gene_id # Undefined
    /\ check_gene_id \notin Range(answer.ids)
    /\ gene_id_dict[gene] \in Range(answer.ids)

\* C20: when the fetch of a candidate fails in the multi-candidate loop, the
\* iteration writes nothing to gene_id_dict (neither while it ran nor when
\* it failed) and the symbol is appended to genes_None.txt.
C20_FailedFetchLeavesMapping ==
    [][pc = "efetch_multi" =>
          /\ pc' = "efetch_multi" => gene_id_dict' = gene_id_dict
          /\ Len(fetchLog') > Len(seen') =>
               /\ gene_id_dict' = gene_id_dict
               /\ outcome' \in {"RetryError", "raised", "ParseError"}
               /\ genes_None' =
                      Append(genes_None, [gene |-> gene, cause |-> outcome'])
               /\ idx' = idx + 1
               /\ pc' = "search"]_vars

C20_Witness ==
    /\ AtRest /\ Multi /\ FetchFailed
    /\ Len(fetchLog) = 3 /\ Len(seen) = 2
    /\ candidate_gene_id # <<>>
    /\ Len(searchCalls) = 2
    /\ gene \in DOMAIN gene_id_dict
    /\ gene_id_dict[gene] \notin Range(candidate_gene_id)
    /\ genes_None[Len(genes_None)].gene = gene

----------------------------------------------------------------------------
(* Properties of a repeated resolution (TwiceSpec) *)

\* The second run has resolved the symbol again.
Repeated == AtRest /\ Replaying

StoredNow == IF outcome = "resolved" THEN gene_id_dict[gene] ELSE "none"

\* C13: the outcome recorded for a symbol (the resolved identifier, or
\* unresolved with its recorded cause) is the same whatever was resolved
\* before it.
C13_OutcomeIgnoresPredecessors ==
    Repeated => (outcome = first.outcome /\ StoredNow = first.stored)

\* C14: resolving the same symbol twice against an unchanged remote, with no
\* transient failure, gives the same result: the same resolved identifier,
\* or unresolved both times.
C14_Idempotent ==
    Repeated => StoredNow = first.stored

C14_Witness ==
    /\ Repeated
    /\ pc = "done"
    /\ first.outcome = "sole candidate discontinued"
    /\ outcome = "NameError"
    /\ StoredNow = first.stored

====
